---- MODULE Spec2Model ----
(***************************************************************************)
(* Model of generate_msat.py: the three-sheet workbook it generates        *)
(* ("Market Averages", "Property Data", "Leased Beds Report"), the         *)
(* formulas it writes into the derived cells, and the values those         *)
(* formulas take as a user edits the input cells of the generated book.    *)
(*                                                                         *)
(* Numbers are fixed-point integers in hundredths (0.55 is 55, 48 units is *)
(* 4800), which is exact for every product units x percentage the sheets   *)
(* compute.  A quotient keeps its denominator in the field d.  Text is     *)
(* compared the way the host spreadsheet compares it (ignoring case), so a *)
(* text value of the model stands for its whole case-equivalence class.    *)
(***************************************************************************)
EXTENDS Integers, Sequences, FiniteSets, TLC

VARIABLES
    include_sample_data,  \* the flag generate_workbook was called with
    market,               \* 'Market Averages'!C7:C12, the editable percentages
    data,                 \* 'Property Data'!B7:F106, the five input columns
    edits                 \* number of user edits made since generation

vars == <<include_sample_data, market, data, edits>>

(***************************************************************************)
(* Cell values of the host spreadsheet.                                    *)
(***************************************************************************)
Blank == [k |-> "blank", n |-> 0, d |-> 1, s |-> ""]

Num(x) == [k |-> "num", n |-> x, d |-> 1, s |-> ""]

Quot(x, y) == [k |-> "num", n |-> x, d |-> y, s |-> ""]

Text(t) == [k |-> "text", n |-> 0, d |-> 1, s |-> t]

Bool(b) == [k |-> "bool", n |-> IF b THEN 1 ELSE 0, d |-> 1, s |-> ""]

Err(e) == [k |-> "err", n |-> 0, d |-> 1, s |-> e]

EmptyStr == Text("")

\* A whole number / a percentage, as the fixed-point value the model keeps.
Whole(x) == Num(x * 100)

Pct(p) == Num(p)

(***************************************************************************)
(* The host's formula functions, as far as the generated formulas use them.*)
(***************************************************************************)
\* a = b on two non-error values: a blank cell equals "" and 0; a number
\* never equals a text.
CmpEq(a, b) ==
    CASE a.k = "blank" /\ b.k = "blank" -> TRUE
      [] a.k = "blank" /\ b.k = "text" -> b.s = ""
      [] a.k = "text" /\ b.k = "blank" -> a.s = ""
      [] a.k = "blank" /\ b.k = "num" -> b.n = 0
      [] a.k = "num" /\ b.k = "blank" -> a.n = 0
      [] a.k = "num" /\ b.k = "num" -> a.n * b.d = b.n * a.d
      [] a.k = "text" /\ b.k = "text" -> a.s = b.s
      [] a.k = "bool" /\ b.k = "bool" -> a.n = b.n
      [] OTHER -> FALSE

EqV(a, b) ==
    IF a.k = "err" THEN a ELSE IF b.k = "err" THEN b ELSE Bool(CmpEq(a, b))

NeV(a, b) ==
    IF a.k = "err" THEN a ELSE IF b.k = "err" THEN b ELSE Bool(~CmpEq(a, b))

\* The value a formula shows when its result is a reference to a cell: a
\* blank cell is shown as the number 0.
Deref(v) == LET x == v IN IF x.k = "blank" THEN Num(0) ELSE x

Truthy(c) == (c.k = "bool" /\ c.n = 1) \/ (c.k = "num" /\ c.n # 0)

\* IF(c, t, e): an error in the condition is the result; only the chosen
\* branch is evaluated.
IfV(c, t, e) ==
    IF c.k = "err" THEN c
    ELSE IF c.k = "text" THEN Err("#VALUE!")
    ELSE IF Truthy(c) THEN Deref(t) ELSE Deref(e)

\* OR(a, b) and AND(a, b) evaluate both arguments.
OrV(a, b) ==
    IF a.k = "err" THEN a ELSE IF b.k = "err" THEN b
    ELSE Bool(Truthy(a) \/ Truthy(b))

AndV(a, b) ==
    IF a.k = "err" THEN a ELSE IF b.k = "err" THEN b
    ELSE Bool(Truthy(a) /\ Truthy(b))

\* a * b: a blank is 0, a text that is no number is #VALUE!.
MulV(a, b) ==
    IF a.k = "err" THEN a ELSE IF b.k = "err" THEN b
    ELSE IF a.k = "text" \/ b.k = "text" THEN Err("#VALUE!")
    ELSE Num((a.n * b.n) \div 100)

\* a / b on two plain numbers (d = 1): division by zero is #DIV/0!.
DivV(a, b) ==
    IF a.k = "err" THEN a ELSE IF b.k = "err" THEN b
    ELSE IF a.k = "text" \/ b.k = "text" THEN Err("#VALUE!")
    ELSE IF b.n = 0 THEN Err("#DIV/0!")
    ELSE Quot(a.n, b.n)

\* Variant: halves rounded up (toward plus infinity) whatever the sign.
RoundV_HalfUp(a) ==
    IF a.k = "err" THEN a
    ELSE IF a.k = "text" THEN Err("#VALUE!")
    ELSE Num(((a.n + 50) \div 100) * 100)

\* ROUND(a, 0): to the nearest whole number, halves away from zero.
RoundV(a) ==
    IF a.k = "err" THEN a
    ELSE IF a.k = "text" THEN Err("#VALUE!")
    ELSE IF a.n >= 0 THEN Num(((a.n + 50) \div 100) * 100)
    ELSE Num(-(((50 - a.n) \div 100) * 100))


(***************************************************************************)
(* setup_market_averages_sheet: the table of defaults and the coordinates  *)
(* it returns.                                                             *)
(***************************************************************************)
bedroom_types ==
    << <<"Studio", 45>>, <<"1 BR", 50>>, <<"2 BR", 55>>,
       <<"3 BR", 60>>, <<"4 BR", 55>>, <<"5 BR", 50>> >>

BedroomTypeNames == {bedroom_types[i][1] : i \in 1..Len(bedroom_types)}

\* enumerate(bedroom_types, start=7)
MarketFirstRow == 7

MarketRows == MarketFirstRow..(MarketFirstRow + Len(bedroom_types) - 1)

Coord(c, r) == [col |-> c, row |-> r]

\* Column B of the sheet: the labels the loop writes.
MarketLabels ==
    [r \in MarketRows |-> Text(bedroom_types[r - MarketFirstRow + 1][1])]

\* Column C of the sheet as generated: the default percentages.
MarketDefaults ==
    [r \in MarketRows |-> Pct(bedroom_types[r - MarketFirstRow + 1][2])]

\* The returned dict, '$C$7' .. '$C$12'.
market_avg_refs ==
    [t \in BedroomTypeNames |->
        CASE t = "Studio" -> Coord("C", 7)
          [] t = "1 BR" -> Coord("C", 8)
          [] t = "2 BR" -> Coord("C", 9)
          [] t = "3 BR" -> Coord("C", 10)
          [] t = "4 BR" -> Coord("C", 11)
          [] t = "5 BR" -> Coord("C", 12)]

\* A cell of 'Market Averages' in the current state.
MarketCell(c) ==
    IF c.row \in MarketRows /\ c.col = "C" THEN market[c.row]
    ELSE IF c.row \in MarketRows /\ c.col = "B" THEN MarketLabels[c.row]
    ELSE Blank

(***************************************************************************)
(* setup_property_data_sheet: 100 rows of five input cells and three       *)
(* formulas each.                                                          *)
(***************************************************************************)
\* range(7, 107)
FirstDataRow == 7

LastDataRow == 106

DataRows == FirstDataRow..LastDataRow

InputCols == {"B", "C", "D", "E", "F"}

\* ws.cell(row, column, value=""): the five input cells start out empty.
EmptyRow == [c \in InputCols |-> Blank]

EmptyData == [r \in DataRows |-> EmptyRow]

\* An input cell of 'Property Data'; row 6 holds the header texts.
Input(col, row) ==
    IF row \in DataRows THEN data[row][col]
    ELSE IF row = FirstDataRow - 1 THEN Text("header")
    ELSE Blank

\* IF(cell="k1",v1,IF(cell="k2",v2,...,fallback)) from branch i on, for a
\* cell holding a text.
RECURSIVE NestedIfText(_, _, _, _)
NestedIfText(cell, branches, i, fallback) ==
    IF i > Len(branches) THEN fallback
    ELSE IfV(EqV(cell, Text(branches[i][1])), branches[i][2],
             NestedIfText(cell, branches, i + 1, fallback))

\* The whole nesting.  Every key is a non-empty text, so for an empty cell
\* or a number every comparison is FALSE and the result is the fallback; an
\* error in the cell is the result of the first comparison.
NestedIf(cell, branches, fallback) ==
    IF cell.k = "err" THEN cell
    ELSE IF cell.k # "text" THEN Deref(fallback)
    ELSE NestedIfText(cell, branches, 1, fallback)

\* Variant: the 5 BR branch copied from the 4 BR branch with its cell.
EffectiveBranches_Copied ==
    << <<"Studio", Coord("C", 7)>>, <<"1 BR", Coord("C", 8)>>,
       <<"2 BR", Coord("C", 9)>>, <<"3 BR", Coord("C", 10)>>,
       <<"4 BR", Coord("C", 11)>>, <<"5 BR", Coord("C", 11)>> >>

\* The cells the Effective % formula names, branch by branch.
EffectiveBranches ==
    << <<"Studio", Coord("C", 7)>>, <<"1 BR", Coord("C", 8)>>,
       <<"2 BR", Coord("C", 9)>>, <<"3 BR", Coord("C", 10)>>,
       <<"4 BR", Coord("C", 11)>>, <<"5 BR", Coord("C", 12)>> >>

\* The same nesting, each branch a reference into 'Market Averages'.
RECURSIVE NestedIfMarketText(_, _, _, _)
NestedIfMarketText(cell, branches, i, fallback) ==
    IF i > Len(branches) THEN fallback
    ELSE IfV(EqV(cell, Text(branches[i][1])), MarketCell(branches[i][2]),
             NestedIfMarketText(cell, branches, i + 1, fallback))

NestedIfMarket(cell, branches, fallback) ==
    IF cell.k = "err" THEN cell
    ELSE IF cell.k # "text" THEN Deref(fallback)
    ELSE NestedIfMarketText(cell, branches, 1, fallback)

\* Variant: the percentage is tested with F<>0, so an explicit 0 counts as
\* not entered.
effective_formula_ZeroIsEmpty(row) ==
    IfV(NeV(Input("F", row), Num(0)), Input("F", row),
        NestedIfMarket(Input("D", row), EffectiveBranches, EmptyStr))

\* G{row}: =IF(F<>"",F,IF(D="Studio",'Market Averages'!$C$7,...,""))
effective_formula(row) ==
    IfV(NeV(Input("F", row), EmptyStr), Input("F", row),
        NestedIfMarket(Input("D", row), EffectiveBranches, EmptyStr))

\* Variant: a studio counted by its bedrooms, 0.
BedsBranches_StudioZero ==
    << <<"Studio", Whole(0)>>, <<"1 BR", Whole(1)>>, <<"2 BR", Whole(2)>>,
       <<"3 BR", Whole(3)>>, <<"4 BR", Whole(4)>>, <<"5 BR", Whole(5)>> >>

\* The beds-per-unit branches of the Total Beds formula.
BedsBranches ==
    << <<"Studio", Whole(1)>>, <<"1 BR", Whole(1)>>, <<"2 BR", Whole(2)>>,
       <<"3 BR", Whole(3)>>, <<"4 BR", Whole(4)>>, <<"5 BR", Whole(5)>> >>

\* The factor the Total Beds formula multiplies by E{row}.
BedsFactor(row) == NestedIf(Input("D", row), BedsBranches, Whole(0))

\* Variant: only the units are tested, =IF(E="","",IF(D="Studio",1,...,0)*E)
beds_formula_UnitsOnly(row) ==
    IfV(EqV(Input("E", row), EmptyStr),
        EmptyStr,
        MulV(BedsFactor(row), Input("E", row)))

\* H{row}: =IF(OR(D="",E=""),"",IF(D="Studio",1,...,0)*E)
beds_formula(row) ==
    IfV(OrV(EqV(Input("D", row), EmptyStr), EqV(Input("E", row), EmptyStr)),
        EmptyStr,
        MulV(BedsFactor(row), Input("E", row)))

\* I{row}: =IF(OR(H="",G=""),"",ROUND(H*G,0))
leased_formula(row) ==
    LET h == beds_formula(row)
        g == effective_formula(row)
    IN  IfV(OrV(EqV(h, EmptyStr), EqV(g, EmptyStr)),
            EmptyStr,
            RoundV(MulV(h, g)))

\* Any cell of 'Property Data', columns B..I.
PropertyData(col, row) ==
    IF col \in InputCols THEN Input(col, row)
    ELSE IF row \notin DataRows THEN
        (IF row = FirstDataRow - 1 THEN Text("header") ELSE Blank)
    ELSE IF col = "G" THEN effective_formula(row)
    ELSE IF col = "H" THEN beds_formula(row)
    ELSE IF col = "I" THEN leased_formula(row)
    ELSE Blank

\* The conditional-format rule AND($F7="",$D7<>"") on B7:I106: the rule is
\* written for the first row of its range and shifts with the row.
RuleRow == 7

RuleFirstRow == 7

RuleLastRow == 106

\* Variant: the rule written with absolute rows, AND($F$7="",$D$7<>"").
market_avg_rule_Absolute(row) ==
    /\ row \in RuleFirstRow..RuleLastRow
    /\ Truthy(AndV(EqV(Input("F", RuleRow), EmptyStr),
                   NeV(Input("D", RuleRow), EmptyStr)))

market_avg_rule(row) ==
    /\ row \in RuleFirstRow..RuleLastRow
    /\ LET r == RuleRow + (row - RuleFirstRow)
       IN  Truthy(AndV(EqV(Input("F", r), EmptyStr),
                       NeV(Input("D", r), EmptyStr)))


(***************************************************************************)
(* setup_report_sheet: the mirror rows, the two sums and the overall       *)
(* percentage of 'Leased Beds Report'.                                     *)
(***************************************************************************)
\* range(8, 108)
FirstReportRow == 8

LastReportRow == 107

ReportRows == FirstReportRow..LastReportRow

\* Variant: the report row reads the entry row of the same number.
data_row_SameRow(row) == row

\* data_row = row - 1
data_row(row) == row - 1

\* =IF('Property Data'!X{data_row}="","",'Property Data'!X{data_row})
mirror_formula(col, row) ==
    LET src == PropertyData(col, data_row(row))
    IN  IfV(EqV(src, EmptyStr), EmptyStr, src)

\* Variant: the report's copy of the lookup counts a studio as 0.
report_beds_formula_StudioZero(row) ==
    LET src == PropertyData("D", data_row(row))
    IN  IfV(EqV(src, EmptyStr), EmptyStr,
            NestedIf(src, BedsBranches_StudioZero, EmptyStr))

\* D{row}: =IF('Property Data'!D="","",IF(D="Studio",1,...,IF(D="5 BR",5,"")))
report_beds_formula(row) ==
    LET src == PropertyData("D", data_row(row))
    IN  IfV(EqV(src, EmptyStr), EmptyStr,
            NestedIf(src, BedsBranches, EmptyStr))

\* A cell of the mirror rows, columns B..G: each mirrored column reads its
\* own column of 'Property Data' (B, C, H, G, I).
ReportRowCell(col, row) ==
    IF row \notin ReportRows THEN Blank
    ELSE IF col = "B" THEN mirror_formula("B", row)
    ELSE IF col = "C" THEN mirror_formula("C", row)
    ELSE IF col = "D" THEN report_beds_formula(row)
    ELSE IF col = "E" THEN mirror_formula("H", row)
    ELSE IF col = "F" THEN mirror_formula("G", row)
    ELSE IF col = "G" THEN mirror_formula("I", row)
    ELSE Blank

\* summary_row = 110
summary_row == 110

\* Variant: the ranges start one row late, E9:E107 and G9:G107.
SumFirstRow_Late == FirstReportRow + 1

\* The rows the SUMIF ranges E8:E107 and G8:G107 cover.
SumFirstRow == 8

SumLastRow == 107

\* What one cell adds to SUMIF(range, "<>"""): the criterion is "differs
\* from the text of one double quote"; of the cells that meet it a number
\* is added, a text or an empty cell adds nothing, an error is the result.
SumIfTerm(c) ==
    IF c.k = "err" THEN c
    ELSE IF c.k = "num" /\ ~CmpEq(c, Text("\"")) THEN c
    ELSE Num(0)

\* SUMIF over rows lo..hi of one report column (the range is split in two
\* halves to keep the evaluation shallow).
RECURSIVE SumIfNotQuote(_, _, _)
SumIfNotQuote(col, lo, hi) ==
    IF lo > hi THEN Num(0)
    ELSE IF lo = hi THEN SumIfTerm(ReportRowCell(col, lo))
    ELSE LET mid == (lo + hi) \div 2
             a == SumIfNotQuote(col, lo, mid)
             b == SumIfNotQuote(col, mid + 1, hi)
         IN  IF a.k = "err" THEN a
             ELSE IF b.k = "err" THEN b
             ELSE Num(a.n + b.n)

\* The cells of the summary row: E and G hold the two SUMIF formulas.
SummaryCell(col, row) ==
    IF row = summary_row /\ col = "E" THEN
        SumIfNotQuote("E", SumFirstRow, SumLastRow)
    ELSE IF row = summary_row /\ col = "G" THEN
        SumIfNotQuote("G", SumFirstRow, SumLastRow)
    ELSE Blank

\* The cell at summary_row + 2: =IF(E110=0,"",G110/E110)
overall_formula ==
    LET e == SummaryCell("E", 110)
        g == SummaryCell("G", 110)
    IN  IfV(EqV(e, Num(0)), EmptyStr, DivV(g, e))

(***************************************************************************)
(* add_sample_data and generate_workbook.  A tuple's last element is the   *)
(* explicit percentage, <<>> where the source has "".                      *)
(***************************************************************************)
sample_data ==
    << <<"The Heights", "Studio Deluxe", "Studio", 24, <<52>>>>,
       <<"The Heights", "A1", "1 BR", 36, <<52>>>>,
       <<"The Heights", "B1", "2 BR", 48, <<52>>>>,
       <<"The Heights", "B2 Premium", "2 BR", 24, <<52>>>>,
       <<"The Heights", "C1", "3 BR", 32, <<52>>>>,
       <<"University Village", "Efficiency", "Studio", 20, <<>>>>,
       <<"University Village", "One Bed", "1 BR", 40, <<>>>>,
       <<"University Village", "Two Bed A", "2 BR", 60, <<>>>>,
       <<"University Village", "Two Bed B", "2 BR", 30, <<>>>>,
       <<"University Village", "Three Bed", "3 BR", 48, <<>>>>,
       <<"University Village", "Four Bed", "4 BR", 24, <<>>>>,
       <<"Campus Edge", "Studio", "Studio", 16, <<48>>>>,
       <<"Campus Edge", "1BR Classic", "1 BR", 32, <<48>>>>,
       <<"Campus Edge", "2BR Standard", "2 BR", 40, <<48>>>>,
       <<"Campus Edge", "3BR Townhome", "3 BR", 20, <<48>>>> >>

\* enumerate(sample_data, start=7)
SampleFirstRow == 7

SampleRows == SampleFirstRow..(SampleFirstRow + Len(sample_data) - 1)

\* The row add_sample_data writes at sheet row i; the percentage cell is
\* written only when the tuple holds one.
SampleRow(i) ==
    LET t == sample_data[i - SampleFirstRow + 1]
    IN  [c \in InputCols |->
            CASE c = "B" -> Text(t[1])
              [] c = "C" -> Text(t[2])
              [] c = "D" -> Text(t[3])
              [] c = "E" -> Whole(t[4])
              [] c = "F" -> IF t[5] = <<>> THEN Blank ELSE Pct(t[5][1])]

add_sample_data(ws) ==
    [r \in DOMAIN ws |-> IF r \in SampleRows THEN SampleRow(r) ELSE ws[r]]

\* The input cells of 'Property Data' that generate_workbook saves.
generate_workbook(flag) ==
    IF flag THEN add_sample_data(EmptyData) ELSE EmptyData


(***************************************************************************)
(* The generated workbook and the user's edits of its input cells.         *)
(***************************************************************************)
\* Number of edits followed from the generated workbook.
MaxEdits == 1

\* The rows edited: a sample row with an explicit percentage (9), a sample
\* row on the market average (12), and the last row.
EditRows == {9, 12, LastDataRow}

\* Values typed or pasted into a column.  Pasting bypasses the list
\* validation of column D, so a text outside the list can arrive there.
InputValues(col) ==
    CASE col = "B" -> {Text("Campus Edge")}
      [] col = "C" -> {Text("A1")}
      [] col = "D" -> {Text(t) : t \in BedroomTypeNames \cup {"Loft"}}
      [] col = "E" -> {Whole(0), Whole(10), Whole(-10)}
      [] col = "F" -> {Pct(0), Pct(25)}

MarketValues == {Pct(30)}

Init ==
    /\ include_sample_data \in BOOLEAN
    /\ market = MarketDefaults
    /\ data = generate_workbook(include_sample_data)
    /\ edits = 0

SetInput(r, c, v) ==
    /\ edits < MaxEdits
    /\ data[r][c] # v
    /\ data' = [data EXCEPT ![r][c] = v]
    /\ edits' = edits + 1
    /\ UNCHANGED <<include_sample_data, market>>

ClearInput(r, c) ==
    /\ edits < MaxEdits
    /\ data[r][c] # Blank
    /\ data' = [data EXCEPT ![r][c] = Blank]
    /\ edits' = edits + 1
    /\ UNCHANGED <<include_sample_data, market>>

SetMarketAverage(r, v) ==
    /\ edits < MaxEdits
    /\ market[r] # v
    /\ market' = [market EXCEPT ![r] = v]
    /\ edits' = edits + 1
    /\ UNCHANGED <<include_sample_data, data>>

ClearMarketAverage(r) ==
    /\ edits < MaxEdits
    /\ market[r] # Blank
    /\ market' = [market EXCEPT ![r] = Blank]
    /\ edits' = edits + 1
    /\ UNCHANGED <<include_sample_data, data>>

Next ==
    \/ \E r \in EditRows, c \in InputCols : \E v \in InputValues(c) :
          SetInput(r, c, v)
    \/ \E r \in EditRows, c \in InputCols : ClearInput(r, c)
    \/ \E r \in MarketRows, v \in MarketValues : SetMarketAverage(r, v)
    \/ \E r \in MarketRows : ClearMarketAverage(r)

Spec == Init /\ [][Next]_vars


(***************************************************************************)
(* Vocabulary of the properties.                                           *)
(***************************************************************************)
\* An input cell the user left or made empty.
NoInput(col, row) == Input(col, row) = Blank

\* A derived cell showing the empty value / a formula error.
ShowsEmpty(v) == v = EmptyStr

IsError(v) == v.k = "err"

\* The bedroom type of a row, when its cell holds one of the six.
HasType(row) ==
    Input("D", row).k = "text" /\ Input("D", row).s \in BedroomTypeNames

TypeOf(row) == Input("D", row).s

\* The value read from a cell: an empty cell reads as 0.
ValueRead(v) == IF v = Blank THEN Num(0) ELSE v

\* The fixed lookups of the specification.
BedsPerUnit ==
    [t \in BedroomTypeNames |->
        CASE t = "Studio" -> 1 [] t = "1 BR" -> 1 [] t = "2 BR" -> 2
          [] t = "3 BR" -> 3 [] t = "4 BR" -> 4 [] t = "5 BR" -> 5]

DefaultPercent ==
    [t \in BedroomTypeNames |->
        CASE t = "Studio" -> 45 [] t = "1 BR" -> 50 [] t = "2 BR" -> 55
          [] t = "3 BR" -> 60 [] t = "4 BR" -> 55 [] t = "5 BR" -> 50]

\* The Market Averages cell of a bedroom type, by the returned mapping.
AverageOf(t) == MarketCell(market_avg_refs[t])

\* x (in ten-thousandths) to the nearest whole number, halves away from zero.
NearestWhole(x) ==
    IF x >= 0 THEN (x + 5000) \div 10000 ELSE -((5000 - x) \div 10000)

\* The user has edited the generated workbook.
Edited == edits > 0

(***************************************************************************)
(* C1.  In every state reached by setting or clearing input cells of the   *)
(* Property Data rows and the Market Averages cells, every derived cell    *)
(* whose required inputs are absent shows the empty value, and no derived  *)
(* cell shows a formula error.  The required inputs of effectivePercent    *)
(* are the preleasePercent or else the bedroomType and its Market Averages *)
(* cell; of totalBeds the bedroomType and units; of leasedBeds those of    *)
(* both; of a mirrored cell its source; of the overall percentage a        *)
(* nonzero sum of beds.                                                    *)
(***************************************************************************)
C1_DegradeToEmpty ==
    /\ \A r \in DataRows :
          LET g == effective_formula(r)
              h == beds_formula(r)
              i == leased_formula(r)
              noPct == NoInput("F", r) /\
                       (~HasType(r) \/ AverageOf(TypeOf(r)) = Blank)
              noBeds == NoInput("D", r) \/ NoInput("E", r)
          IN  /\ ~IsError(g) /\ ~IsError(h) /\ ~IsError(i)
              /\ noPct => ShowsEmpty(g)
              /\ noBeds => ShowsEmpty(h)
              /\ (noPct \/ noBeds) => ShowsEmpty(i)
              /\ (NoInput("B", r) /\ NoInput("C", r) /\ NoInput("D", r)
                  /\ NoInput("E", r) /\ NoInput("F", r)) =>
                    ShowsEmpty(g) /\ ShowsEmpty(h) /\ ShowsEmpty(i)
    /\ \A r \in ReportRows : \A c \in {"B", "C", "D", "E", "F", "G"} :
          ~IsError(ReportRowCell(c, r))
    /\ \A r \in ReportRows :
          /\ NoInput("B", r - 1) => ShowsEmpty(ReportRowCell("B", r))
          /\ NoInput("C", r - 1) => ShowsEmpty(ReportRowCell("C", r))
          /\ NoInput("D", r - 1) => ShowsEmpty(ReportRowCell("D", r))
          /\ ShowsEmpty(beds_formula(r - 1)) =>
                ShowsEmpty(ReportRowCell("E", r))
          /\ ShowsEmpty(effective_formula(r - 1)) =>
                ShowsEmpty(ReportRowCell("F", r))
          /\ ShowsEmpty(leased_formula(r - 1)) =>
                ShowsEmpty(ReportRowCell("G", r))
    /\ ~IsError(SummaryCell("E", summary_row))
    /\ ~IsError(SummaryCell("G", summary_row))
    /\ ~IsError(overall_formula)
    /\ SummaryCell("E", summary_row) = Num(0) => ShowsEmpty(overall_formula)

(***************************************************************************)
(* C2.  As stated: for any row whose bedroomType is empty, whatever units  *)
(* and preleasePercent hold, effectivePercent, totalBeds and leasedBeds    *)
(* are all empty.                                                          *)
(***************************************************************************)
C2_AllEmptyWithoutType ==
    \A r \in DataRows :
        NoInput("D", r) =>
            /\ ShowsEmpty(effective_formula(r))
            /\ ShowsEmpty(beds_formula(r))
            /\ ShowsEmpty(leased_formula(r))

(***************************************************************************)
(* C2, amended.  For any row whose bedroomType is empty, whatever units    *)
(* and preleasePercent hold, totalBeds and leasedBeds are empty;           *)
(* effectivePercent is empty when preleasePercent is empty too, and is the *)
(* preleasePercent otherwise.                                              *)
(***************************************************************************)
C2_EmptyType ==
    \A r \in DataRows :
        NoInput("D", r) =>
            LET g == effective_formula(r)
            IN  /\ ShowsEmpty(beds_formula(r))
                /\ ShowsEmpty(leased_formula(r))
                /\ NoInput("F", r) => ShowsEmpty(g)
                /\ ~NoInput("F", r) => g = Input("F", r)

\* A row without a bedroom type that holds units and an explicit percentage.
C2_Witness ==
    \E r \in DataRows :
        /\ NoInput("D", r) /\ ~NoInput("E", r) /\ ~NoInput("F", r)
        /\ effective_formula(r) = Input("F", r)
        /\ ShowsEmpty(leased_formula(r))


C4_TotalBeds ==
    \A r \in DataRows :
        LET h == beds_formula(r)
            absent == NoInput("D", r) \/ NoInput("E", r)
        IN  /\ absent => ShowsEmpty(h)
            /\ (~absent /\ HasType(r)) =>
                   h = Num(BedsPerUnit[TypeOf(r)] * Input("E", r).n)
            /\ (~absent /\ ~HasType(r)) => h = Num(0)

\* A row with units and a bedroom type outside the list: 0 beds.
C4_Witness ==
    \E r \in DataRows :
        /\ ~NoInput("D", r) /\ ~HasType(r)
        /\ Input("E", r).k = "num" /\ Input("E", r).n # 0
        /\ beds_formula(r) = Num(0)

C6_Highlight ==
    /\ \A r \in DataRows :
          market_avg_rule(r) <=> (~NoInput("D", r) /\ NoInput("F", r))
    /\ (include_sample_data /\ ~Edited) =>
          /\ \A r \in SampleRows :
                market_avg_rule(r) <=>
                    Input("B", r) = Text("University Village")
          /\ Cardinality({r \in DataRows : market_avg_rule(r)}) = 6
          /\ Cardinality({r \in SampleRows : ~market_avg_rule(r)}) = 9
          /\ \A r \in SampleRows : ~market_avg_rule(r) <=> ~NoInput("F", r)

\* After an edit the last row is highlighted and a row with a percentage
\* is not.
C6_Witness ==
    /\ Edited
    /\ market_avg_rule(LastDataRow)
    /\ \E r \in DataRows :
          ~NoInput("D", r) /\ ~NoInput("F", r) /\ ~market_avg_rule(r)


(***************************************************************************)
(* C7.  sumTotalBeds is the sum of totalBeds over the rows where it is     *)
(* non-empty, sumLeasedBeds the sum of leasedBeds over the rows where it   *)
(* is non-empty, and overallPercent is sumLeasedBeds / sumTotalBeds, empty *)
(* if and only if sumTotalBeds = 0 and never a division error.             *)
(***************************************************************************)
RECURSIVE SumOfBeds(_, _)
SumOfBeds(lo, hi) ==
    IF lo > hi THEN 0
    ELSE IF lo = hi THEN
        (LET h == beds_formula(lo) IN IF ShowsEmpty(h) THEN 0 ELSE h.n)
    ELSE SumOfBeds(lo, (lo + hi) \div 2) + SumOfBeds((lo + hi) \div 2 + 1, hi)

RECURSIVE SumOfLeased(_, _)
SumOfLeased(lo, hi) ==
    IF lo > hi THEN 0
    ELSE IF lo = hi THEN
        (LET i == leased_formula(lo) IN IF ShowsEmpty(i) THEN 0 ELSE i.n)
    ELSE SumOfLeased(lo, (lo + hi) \div 2)
         + SumOfLeased((lo + hi) \div 2 + 1, hi)

C7_Totals ==
    LET beds == SumOfBeds(FirstDataRow, LastDataRow)
        leased == SumOfLeased(FirstDataRow, LastDataRow)
        overall == overall_formula
    IN  /\ SummaryCell("E", summary_row) = Num(beds)
        /\ SummaryCell("G", summary_row) = Num(leased)
        /\ ~IsError(overall)
        /\ ShowsEmpty(overall) <=> beds = 0
        /\ beds # 0 => overall = Quot(leased, beds)

\* The units of a sample row were changed to 10 and the totals follow:
\* the sample's 968 beds less the row's 20 plus its 10.
C7_Witness ==
    /\ Edited
    /\ beds_formula(12) = Whole(10)
    /\ SummaryCell("E", summary_row) = Whole(958)
    /\ overall_formula.k = "num"

(***************************************************************************)
(* C8.  For every k in 1..100 report row 7+k shows exactly the property    *)
(* name, floorplan name, totalBeds, effectivePercent and leasedBeds of     *)
(* entry row 6+k, each shown as empty when the entry value is empty; the   *)
(* report rows and the entry rows are exactly those 100.                   *)
(***************************************************************************)
Shown(v) == LET x == v IN IF x = Blank \/ x = EmptyStr THEN EmptyStr ELSE x

C8_Mirror ==
    /\ ReportRows = {7 + k : k \in 1..100}
    /\ DataRows = {6 + k : k \in 1..100}
    /\ \A k \in 1..100 :
          /\ ReportRowCell("B", 7 + k) = Shown(Input("B", 6 + k))
          /\ ReportRowCell("C", 7 + k) = Shown(Input("C", 6 + k))
          /\ ReportRowCell("E", 7 + k) = Shown(beds_formula(6 + k))
          /\ ReportRowCell("F", 7 + k) = Shown(effective_formula(6 + k))
          /\ ReportRowCell("G", 7 + k) = Shown(leased_formula(6 + k))

\* The 100th report row shows the name entered in the 100th entry row.
C8_Witness ==
    /\ Edited
    /\ Input("B", 6 + 100).k = "text"
    /\ ReportRowCell("B", 7 + 100) = Input("B", 6 + 100)

C10_SameLookup ==
    \A r \in DataRows :
        LET b == ReportRowCell("D", r + 1)
        IN  /\ NoInput("D", r) => ShowsEmpty(b)
            /\ ~NoInput("D", r) =>
                  /\ b = BedsFactor(r)
                  /\ ~NoInput("E", r) =>
                        MulV(b, Input("E", r)) = ReportRowCell("E", r + 1)

(***************************************************************************)
(* C10, amended.  The report's Beds/Unit is empty when bedroomType is      *)
(* empty; for each of the six types it is the factor the entry sheet       *)
(* multiplies by units (1, 1, 2, 3, 4, 5), so that whenever units is       *)
(* non-empty Beds/Unit x units is the mirrored totalBeds; for a non-empty  *)
(* bedroomType outside the six the report shows Beds/Unit empty while the  *)
(* entry sheet's factor is 0.                                              *)
(***************************************************************************)
C10_LookupOnTypes ==
    \A r \in DataRows :
        LET b == ReportRowCell("D", r + 1)
        IN  /\ NoInput("D", r) => ShowsEmpty(b)
            /\ HasType(r) =>
                  /\ b = BedsFactor(r)
                  /\ b = Whole(BedsPerUnit[TypeOf(r)])
                  /\ ~NoInput("E", r) =>
                        MulV(b, Input("E", r)) = ReportRowCell("E", r + 1)
            /\ (~NoInput("D", r) /\ ~HasType(r)) =>
                  ShowsEmpty(b) /\ BedsFactor(r) = Whole(0)

\* A row with units and a type outside the list: Beds/Unit empty, 0 beds.
C10_Witness ==
    \E r \in DataRows :
        /\ ~NoInput("D", r) /\ ~HasType(r) /\ ~NoInput("E", r)
        /\ ShowsEmpty(ReportRowCell("D", r + 1))
        /\ ReportRowCell("E", r + 1) = Num(0)

====
